---- MODULE Spec2Model ----
(***************************************************************************)
(* INDIGO Meade DSI CCD driver (indigo_ccd_dsi.c, carried in src/Makefile  *)
(* from line 343 on) and the raw I/O helpers of indigo_libs/indigo_io.c.   *)
(*                                                                         *)
(* The specifications share the variables:                                 *)
(*   RegSpec  the hot-plug registry: the devices[] slot table against the  *)
(*            USB scan, one action per hot-plug event; every event runs    *)
(*            inside hotplug_callback's device_mutex critical section.     *)
(*   Spec     one device, bound to slot 0, with its threads: client change *)
(*            requests, the timer callbacks, the hot-plug thread and the   *)
(*            shutdown thread, interleaved at lock acquisitions and at the *)
(*            begin and the end of every hardware call.                    *)
(*   GainSpec Spec with the gain and offset requests added.                *)
(*   IoSpec   the I/O helpers, one call after the other.                   *)
(*   TimeSpec the exposure timers of a connected device against the clock  *)
(*            of the timer scheduler.                                      *)
(*   DriverSpec the driver entry point indigo_ccd_dsi with the hot-plug    *)
(*            events of RegSpec in between its calls.                      *)
(***************************************************************************)
EXTENDS Integers, Sequences, FiniteSets, TLC

VARIABLES
    devices,      \* devices[slot]: dev_sid of the device bound to the slot, NULL if free
    dev_list,     \* what dsi_scan_usb returns now: the visible identities, in scan order
    registered,   \* the hot-plug callback is registered (between INIT and SHUTDOWN)
    dropped,      \* the visible identities an arrival event met with no slot free, still unbound
    leaked,       \* private data blocks no slot points to any more that were never freed
    attaching,    \* the slots whose asynchronous indigo_attach_device has not completed yet
    \* ---- the device of slot 0 (Spec) ----
    held,         \* held[t]: the locks thread t holds, in the order it acquired them
    pc,           \* pc[t]: where thread t is
    is_connected, \* device->is_connected (gp_bits)
    connItem,     \* CONNECTION_CONNECTED_ITEM->sw.value
    discItem,     \* CONNECTION_DISCONNECTED_ITEM->sw.value
    connState,    \* CONNECTION_PROPERTY->state
    dsi,          \* PRIVATE_DATA->dsi: "null", "open", or "closed" (dangling)
    temperature_hidden, \* CCD_TEMPERATURE_PROPERTY->hidden
    expState,     \* CCD_EXPOSURE_PROPERTY->state
    imgState,     \* state of CCD_IMAGE_PROPERTY or CCD_IMAGE_FILE_PROPERTY (the upload mode's)
    target,       \* CCD_EXPOSURE_ITEM->number.target
    value,        \* CCD_EXPOSURE_ITEM->number.value
    exposure_timer, \* PRIVATE_DATA->exposure_timer: NULL or the timer it points to
    etimer,       \* etimer[e]: the timer chain of the e-th accepted exposure
    expSeq,       \* number of accepted exposure starts
    abortedEarly, \* the exposures aborted while their timer was pending, the timer still live
    starts,       \* successful hardware starts since CCD_EXPOSURE was last not BUSY
    can_check_temperature, \* PRIVATE_DATA->can_check_temperature
    ttimer,       \* the temperature timer: "none", "pending", "polling"
    freed,        \* the device structure was freed
    uaf,          \* a timer callback ran on the freed device
    pub,          \* the indigo_update_property the latest step made: property, state, message, locks held
    \* ---- indigo_io.c (IoSpec) ----
    io,           \* the latest call of an I/O helper: its arguments, what the handle did, its result
    \* ---- the timer scheduler's clock (TimeSpec) ----
    now,          \* the time, in the units of indigo_set_timer's delay
    due,          \* due[e]: when the pending timer of exposure e's chain fires
    began,        \* began[e]: when the start request of exposure e scheduled its first timer
    \* ---- the driver entry point (DriverSpec) ----
    last_action,  \* indigo_ccd_dsi's static last_action
    entry         \* the latest call of indigo_ccd_dsi: its action, what it did, its result

regVars == <<devices, dev_list, registered, dropped, leaked, attaching>>
thrVars == <<held, pc>>
connVars == <<is_connected, connItem, discItem, connState, dsi, temperature_hidden>>
expVars == <<expState, imgState, target, value, exposure_timer, etimer, expSeq,
             abortedEarly, starts>>
tempVars == <<can_check_temperature, ttimer>>
lifeVars == <<freed, uaf>>
devVars == <<thrVars, connVars, expVars, tempVars, lifeVars, pub>>

timeVars == <<now, due, began>>

drvVars == <<last_action, entry>>

vars == <<regVars, devVars, io, timeVars, drvVars>>

(***************************************************************************)
(* Bounds.  MAX_DEVICES is 32 in the source (src/Makefile:802); the model  *)
(* runs the same table code over a smaller table.                          *)
(***************************************************************************)
MAX_DEVICES == 2
NumSids == 3
MaxLeaked == 2

NULL == 0
NOT_FOUND == -1

Sids == 1 .. NumSids
Slots == 0 .. (MAX_DEVICES - 1)

InList(sid, list) == \E i \in 1 .. Len(list) : list[i] = sid

RemoveFrom(list, sid) == SelectSeq(list, LAMBDA x : x # sid)

\* The scan with one more identity, at position i: the scan order is the bus's.
InsertAt(list, i, sid) == SubSeq(list, 1, i - 1) \o <<sid>> \o SubSeq(list, i, Len(list))

(***************************************************************************)
(* The table scans of the hot-plug support.                                *)
(***************************************************************************)
\* The inner loop of find_plugged_device_sid: some occupied slot is bound to sid.
BoundIn(devs, sid) == \E slot \in Slots : devs[slot] # NULL /\ devs[slot] = sid

\* The identities the scan shows that no slot is bound to.
VisibleUnbound(devs, list) == { sid \in Sids : InList(sid, list) /\ ~BoundIn(devs, sid) }

\* A scan that takes the first visible identity, bound or not.
find_plugged_device_sid_nocheck(devs, list) ==
    IF Len(list) > 0 THEN list[1] ELSE NULL

\* The first identity of the scan that no slot is bound to; NULL when there is none.
find_plugged_device_sid(devs, list) ==
    LET unbound == { i \in 1 .. Len(list) : ~BoundIn(devs, list[i]) }
    IN  IF unbound = {} THEN NULL
        ELSE list[CHOOSE i \in unbound : \A j \in unbound : i <= j]

\* A search that answers slot 0 whether it is free or not.
find_available_device_slot_first(devs) ==
    CHOOSE slot \in Slots : \A other \in Slots : slot <= other

\* The lowest free slot, NOT_FOUND when the table is full.
find_available_device_slot(devs) ==
    LET free == { slot \in Slots : devs[slot] = NULL }
    IN  IF free = {} THEN NOT_FOUND
        ELSE CHOOSE slot \in free : \A other \in free : slot <= other

\* A search that looks at slot 0 only.
find_unplugged_device_slot_first(devs, list) ==
    IF devs[0] # NULL /\ ~InList(devs[0], list) THEN 0 ELSE NOT_FOUND

\* The lowest occupied slot whose identity the scan no longer shows.
find_unplugged_device_slot(devs, list) ==
    LET gone == { slot \in Slots : devs[slot] # NULL /\ ~InList(devs[slot], list) }
    IN  IF gone = {} THEN NOT_FOUND
        ELSE CHOOSE slot \in gone : \A other \in gone : slot <= other

\* The slot table process_plug_event leaves; canOpen is dsi_open_camera's outcome.
process_plug_event(devs, list, canOpen) ==
    LET slot == find_available_device_slot(devs)
        sid  == find_plugged_device_sid(devs, list)
    IN  IF slot < 0 THEN devs
        ELSE IF sid = NULL THEN devs
        ELSE IF ~canOpen THEN devs
        ELSE [devs EXCEPT ![slot] = sid]

\* The slot table process_unplug_event leaves: its while loop, one slot a turn.
RECURSIVE process_unplug_event(_, _)
process_unplug_event(devs, list) ==
    LET slot == find_unplugged_device_slot(devs, list)
    IN  IF slot = NOT_FOUND THEN devs
        ELSE process_unplug_event([devs EXCEPT ![slot] = NULL], list)

\* The private data blocks process_unplug_event leaves allocated: the loop keeps
\* the private data of the slot it removed last, and only that one is freed.
unplug_leaks(devs, list) ==
    LET gone == { slot \in Slots : devs[slot] # NULL /\ ~InList(devs[slot], list) }
    IN  IF gone = {} THEN 0 ELSE Cardinality(gone) - 1

\* remove_all_devices: every slot is detached and set free.
remove_all_devices(devs) == [slot \in Slots |-> NULL]

(***************************************************************************)
(* The device of slot 0: threads, locks, hardware results.                 *)
(***************************************************************************)
NumClients == 2
MaxExposures == 2

\* Exposures of at most CLEAR_REG_LEAD go straight to exposure_timer_callback.
CLEAR_REG_LEAD == 4
\* Readings above this mean "no sensor" (the 1000 of the probe's test).
NO_SENSOR_LIMIT == 1000

Clients == 1 .. NumClients
HP == NumClients + 1        \* the libusb event thread running hotplug_callback
MAIN == NumClients + 2      \* the thread calling indigo_ccd_dsi(INDIGO_DRIVER_SHUTDOWN)
Threads == Clients \cup {HP, MAIN}
Exposures == 1 .. MaxExposures
ExposureTargets == {2, 10}

LocksOf(h, t) == { h[t][i] : i \in 1 .. Len(h[t]) }
Holds(t, lock) == lock \in LocksOf(held, t)
Free(lock) == \A t \in Threads : ~Holds(t, lock)
Acquire(h, t, lock) == [h EXCEPT ![t] = Append(@, lock)]
Release(h, t, lock) == [h EXCEPT ![t] = RemoveFrom(@, lock)]

\* indigo_update_property(device, property, message) made in `by`, the caller holding `locks`.
Pub(prop, st, msg, by, locks) ==
    [prop |-> prop, state |-> st, msg |-> msg, by |-> by, locks |-> locks]

\* The latest step published nothing.
NoPub == Pub("none", "IDLE", FALSE, "none", {})

\* No I/O helper was called yet.
IoIdle == [op |-> "none"]

\* A call of the entry point: the action asked for, whether the callback was
\* registered when the call came, whether the call registered it, the result.
Entry(action, before, registers, result) ==
    [action |-> action, before |-> before, registers |-> registers, result |-> result]

\* The entry point's latest call is the INIT that registered the callback.
EntryOfInit == Entry("INDIGO_DRIVER_INIT", FALSE, TRUE, "INDIGO_OK")

\* The device before any request: private data zeroed, nothing scheduled.

DevQuiet ==
    /\ held = [t \in Threads |-> <<>>]
    /\ pc = [t \in Threads |-> "idle"]
    /\ is_connected = FALSE
    /\ connItem = FALSE
    /\ discItem = TRUE
    /\ connState = "IDLE"
    /\ dsi = "null"
    /\ temperature_hidden = TRUE
    /\ expState = "IDLE"
    /\ imgState = "IDLE"
    /\ target = 0
    /\ value = 0
    /\ exposure_timer = NULL
    /\ etimer = [e \in Exposures |-> "none"]
    /\ expSeq = 0
    /\ abortedEarly = {}
    /\ starts = 0
    /\ can_check_temperature = FALSE
    /\ ttimer = "none"
    /\ freed = FALSE
    /\ uaf = FALSE
    /\ pub = NoPub
    /\ now = 0
    /\ due = [e \in Exposures |-> 0]
    /\ began = [e \in Exposures |-> 0]
    /\ last_action = "INDIGO_DRIVER_INIT"
    /\ entry = EntryOfInit

(***************************************************************************)
(* RegSpec: the registry under hot-plug events.                            *)
(***************************************************************************)
RegInit ==
    /\ devices = [slot \in Slots |-> NULL]
    /\ dev_list = <<>>
    /\ registered = TRUE
    /\ dropped = {}
    /\ leaked = 0
    /\ attaching = {}
    /\ io = IoIdle
    /\ DevQuiet

\* A camera is plugged into the bus; it shows up anywhere in the scan.
UsbArrive ==
    \E sid \in Sids : \E i \in 1 .. (Len(dev_list) + 1) :
        /\ ~InList(sid, dev_list)
        /\ dev_list' = InsertAt(dev_list, i, sid)
        /\ UNCHANGED <<io, timeVars, drvVars, devices, registered, dropped, leaked, attaching, devVars>>

\* A camera is pulled from the bus.
UsbLeave ==
    \E sid \in Sids :
        /\ InList(sid, dev_list)
        /\ dev_list' = RemoveFrom(dev_list, sid)
        /\ dropped' = dropped \ {sid}
        /\ UNCHANGED <<io, timeVars, drvVars, devices, registered, leaked, attaching, devVars>>

\* hotplug_callback, LIBUSB_HOTPLUG_EVENT_DEVICE_ARRIVED.
PlugEvent ==
    /\ registered
    /\ \E canOpen \in BOOLEAN :
           devices' = process_plug_event(devices, dev_list, canOpen)
    /\ dropped' = IF find_available_device_slot(devices) = NOT_FOUND
                  THEN dropped \cup VisibleUnbound(devices, dev_list)
                  ELSE { sid \in dropped : ~BoundIn(devices', sid) }
    /\ attaching' = attaching \cup { slot \in Slots : devices[slot] = NULL /\ devices'[slot] # NULL }
    /\ UNCHANGED <<io, timeVars, drvVars, dev_list, registered, leaked, devVars>>

\* The thread indigo_async started for indigo_attach_device(device) returns.
AttachDone ==
    \E slot \in attaching :
        /\ attaching' = attaching \ {slot}
        /\ UNCHANGED <<io, timeVars, drvVars, devices, dev_list, registered, dropped, leaked, devVars>>

\* hotplug_callback, LIBUSB_HOTPLUG_EVENT_DEVICE_LEFT.
UnplugEvent ==
    /\ registered
    /\ leaked + unplug_leaks(devices, dev_list) <= MaxLeaked
    /\ devices' = process_unplug_event(devices, dev_list)
    /\ leaked' = leaked + unplug_leaks(devices, dev_list)
    /\ attaching' = { slot \in attaching : devices'[slot] # NULL }
    /\ UNCHANGED <<io, timeVars, drvVars, dev_list, registered, dropped, devVars>>

\* indigo_ccd_dsi(INDIGO_DRIVER_SHUTDOWN).
DriverShutdown ==
    /\ registered
    /\ registered' = FALSE
    /\ devices' = remove_all_devices(devices)
    /\ dropped' = {}
    /\ attaching' = { slot \in attaching : devices'[slot] # NULL }
    /\ UNCHANGED <<io, timeVars, drvVars, dev_list, leaked, devVars>>

\* indigo_ccd_dsi(INDIGO_DRIVER_INIT).
DriverInit ==
    /\ ~registered
    /\ registered' = TRUE
    /\ UNCHANGED <<io, timeVars, drvVars, devices, dev_list, dropped, leaked, attaching, devVars>>

RegNext ==
    \/ UsbArrive
    \/ UsbLeave
    \/ PlugEvent
    \/ AttachDone
    \/ UnplugEvent
    \/ DriverShutdown
    \/ DriverInit

RegSpec == RegInit /\ [][RegNext]_vars

(***************************************************************************)
(* Spec: the device of slot 0 and its threads.                             *)
(*                                                                         *)
(* The bus (indigo_change_property, indigo_device_disconnect,              *)
(* indigo_detach_device), the timer scheduler (indigo_set_timer,           *)
(* indigo_cancel_timer, indigo_reschedule_timer) and the CCD base class    *)
(* (indigo_ccd_change_property, indigo_process_image) are not part of the  *)
(* sources at hand; they follow sections 4.2-4.4 of the design: the bus    *)
(* runs change_property under a per-device lock ("bus_lock"), a timer      *)
(* callback runs on a worker of its own, cancel waits for a running        *)
(* callback, and the base class moves an aborted exposure BUSY -> IDLE.    *)
(***************************************************************************)
Init ==
    /\ devices = [slot \in Slots |-> IF slot = 0 THEN 1 ELSE NULL]
    /\ dev_list = <<1>>
    /\ registered = TRUE
    /\ dropped = {}
    /\ leaked = 0
    /\ attaching = {}
    /\ io = IoIdle
    /\ DevQuiet

Attached == devices[0] # NULL /\ ~freed

\* IS_CONNECTED of indigo_driver.h.
IS_CONNECTED == connItem /\ connState = "OK"

\* A change request enters the bus: the device is there and no other change is in flight.
CanSubmit(t) == t \in Clients /\ pc[t] = "idle" /\ Attached /\ Free("bus_lock")

\* change_property returns: a client leaves the bus, a detaching thread goes on to free.
ReturnHeld(h, t) == IF t \in Clients THEN Release(h, t, "bus_lock") ELSE h
ReturnPc(p, t) == [p EXCEPT ![t] = IF t \in Clients THEN "idle" ELSE "free"]

\* A camera_close that returns with usb_mutex still locked.
camera_close_no_unlock(h, t) == h

\* camera_close, after dsi_close_camera: pthread_mutex_unlock(&usb_mutex).
camera_close_unlock(h, t) == Release(h, t, "usb_mutex")

\* A handler that never takes the early return.
exposure_start_never_ignored(state) == FALSE

\* ccd_change_property, CCD_EXPOSURE: a start while BUSY returns at once.
exposure_start_ignored(state) == state = "BUSY"

\* handle_exposure_property: which callback the start schedules.
first_callback(t) == IF t > CLEAR_REG_LEAD THEN "clear_reg" ELSE "exposure"

(* ---- CONNECTION, connect ---- *)
\* ccd_change_property, CONNECTION with CONNECTED on, up to camera_open's dsi_open_camera.
Connect(t) ==
    /\ CanSubmit(t)
    /\ connItem' = TRUE
    /\ discItem' = FALSE
    /\ IF ~is_connected
       THEN /\ Free("usb_mutex")
            /\ held' = Acquire(Acquire(held, t, "bus_lock"), t, "usb_mutex")
            /\ pc' = [pc EXCEPT ![t] = "open"]
       ELSE UNCHANGED <<held, pc>>
    /\ pub' = NoPub
    /\ UNCHANGED <<io, timeVars, drvVars, regVars, is_connected, connState, dsi, temperature_hidden, expVars,
                   tempVars, lifeVars>>

\* The outcomes of camera_open once usb_mutex is locked: the handle is opened; the
\* handle is opened but the image buffer cannot be allocated; the open fails.
OpenOutcomes == {"opened", "no_buffer", "failed"}

\* camera_open's answer: only a failed dsi_open_camera answers false.
camera_open(outcome) == outcome # "failed"

\* PRIVATE_DATA->dsi as camera_open leaves it: without a buffer the handle is
\* closed again and set to NULL.
camera_open_dsi(outcome) == IF outcome = "opened" THEN "open" ELSE "null"

\* A failed connect that leaves CONNECTED as the request set it.
failed_open_connected_kept(item) == item

\* The failed connect: indigo_set_switch(CONNECTION_PROPERTY, CONNECTION_CONNECTED_ITEM, false).
failed_open_connected(item) == FALSE

\* The failed connect: indigo_set_switch(CONNECTION_PROPERTY, CONNECTION_DISCONNECTED_ITEM, true).
failed_open_disconnected(item) == TRUE

\* dsi_open_camera returns; on failure the handler publishes ALERT and returns FAILED.
OpenDone(t) ==
    /\ pc[t] = "open"
    /\ \E outcome \in OpenOutcomes :
         IF camera_open(outcome)
         THEN /\ dsi' = camera_open_dsi(outcome)
              /\ held' = Release(held, t, "usb_mutex")
              /\ pc' = [pc EXCEPT ![t] = "probe_lock"]
              /\ pub' = NoPub
              /\ UNCHANGED <<connItem, discItem, connState>>
         ELSE /\ dsi' = "null"
              /\ connState' = "ALERT"
              /\ discItem' = failed_open_disconnected(discItem)
              /\ connItem' = failed_open_connected(connItem)
              /\ pub' = Pub("CONNECTION", "ALERT", FALSE, "ccd_change_property",
                                LocksOf(held, t) \ {"usb_mutex"})
              /\ held' = ReturnHeld(Release(held, t, "usb_mutex"), t)
              /\ pc' = [pc EXCEPT ![t] = "idle"]
    /\ UNCHANGED <<io, timeVars, drvVars, regVars, is_connected, temperature_hidden, expVars, tempVars, lifeVars>>

\* The capability probe locks usb_mutex again and, before it reads the temperature,
\* marks CCD_TEMPERATURE as not hidden.
ProbeBegin(t) ==
    /\ pc[t] = "probe_lock"
    /\ Free("usb_mutex")
    /\ held' = Acquire(held, t, "usb_mutex")
    /\ pc' = [pc EXCEPT ![t] = "probe"]
    /\ pub' = NoPub
    /\ temperature_hidden' = FALSE
    /\ UNCHANGED <<is_connected, connItem, discItem, connState, dsi>>
    /\ UNCHANGED <<io, timeVars, drvVars, regVars, expVars, tempVars, lifeVars>>

\* What dsi_get_temperature may answer at the end of the probe: a reading, the
\* limit itself, the no-sensor value.
Temperatures == {20, NO_SENSOR_LIMIT, NO_SENSOR_LIMIT + 1}

\* if (temp > 1000): no sensor, CCD_TEMPERATURE stays hidden.
no_sensor(temp) == temp > NO_SENSOR_LIMIT

\* A probe that starts the temperature timer whatever it read.
temperature_timer_started_always(temp) == TRUE

\* The else branch of the no-sensor test: can_check_temperature and indigo_set_timer.
temperature_timer_started(temp) == ~(temp > NO_SENSOR_LIMIT)

\* The probe ends with dsi_get_temperature; a sensor starts the temperature timer.
ProbeDone(t) ==
    /\ pc[t] = "probe"
    /\ \E temp \in Temperatures :
         /\ temperature_hidden' = no_sensor(temp)
         /\ IF temperature_timer_started(temp)
            THEN /\ can_check_temperature' = TRUE
                 /\ ttimer' = "pending"
            ELSE UNCHANGED <<can_check_temperature, ttimer>>
    /\ is_connected' = TRUE
    /\ connState' = "OK"
    /\ pub' = Pub("CONNECTION", "OK", FALSE, "ccd_change_property",
                    LocksOf(held, t) \ {"usb_mutex"})
    /\ held' = ReturnHeld(Release(held, t, "usb_mutex"), t)
    /\ pc' = ReturnPc(pc, t)
    /\ UNCHANGED <<io, timeVars, drvVars, regVars, connItem, discItem, dsi, expVars, lifeVars>>

(* ---- CONNECTION, disconnect ---- *)
\* The CONNECTION branch with CONNECTED off, entered by thread t holding the bus.
DisconnectBody(t, h) ==
    /\ connItem' = FALSE
    /\ discItem' = TRUE
    /\ IF is_connected
       THEN /\ can_check_temperature' = FALSE
            /\ held' = h
            /\ pc' = [pc EXCEPT ![t] = "cancel"]
       ELSE /\ held' = ReturnHeld(h, t)
            /\ pc' = ReturnPc(pc, t)
            /\ UNCHANGED can_check_temperature

Disconnect(t) ==
    /\ CanSubmit(t)
    /\ DisconnectBody(t, Acquire(held, t, "bus_lock"))
    /\ pub' = NoPub
    /\ UNCHANGED <<io, timeVars, drvVars, regVars, is_connected, connState, dsi, temperature_hidden, expVars,
                   ttimer, lifeVars>>

\* A disconnect that leaves the temperature timer as it is.
disconnect_keeps_timer(timer) == timer

\* indigo_cancel_timer(device, &PRIVATE_DATA->temperature_timer): no timer is left.
disconnect_cancels_timer(timer) == "none"

\* indigo_cancel_timer(&temperature_timer), then camera_close up to dsi_close_camera.
CancelTimer(t) ==
    /\ pc[t] = "cancel"
    /\ ttimer # "polling"
    /\ Free("usb_mutex")
    /\ ttimer' = disconnect_cancels_timer(ttimer)
    /\ held' = Acquire(held, t, "usb_mutex")
    /\ pc' = [pc EXCEPT ![t] = "close"]
    /\ pub' = NoPub
    /\ UNCHANGED <<io, timeVars, drvVars, regVars, connVars, expVars, can_check_temperature, lifeVars>>

\* dsi_close_camera returns; the device is marked disconnected.
CloseDone(t) ==
    /\ pc[t] = "close"
    /\ dsi' = "closed"
    /\ is_connected' = FALSE
    /\ connState' = "OK"
    /\ pub' = Pub("CONNECTION", "OK", FALSE, "ccd_change_property",
                    LocksOf(held, t) \ {"usb_mutex"})
    /\ held' = ReturnHeld(camera_close_unlock(held, t), t)
    /\ pc' = ReturnPc(pc, t)
    /\ UNCHANGED <<io, timeVars, drvVars, regVars, connItem, discItem, temperature_hidden, expVars, tempVars,
                   lifeVars>>

(* ---- CCD_EXPOSURE ---- *)
\* ccd_change_property, CCD_EXPOSURE, up to camera_start_exposure's dsi_start_exposure.
Start(t) ==
    /\ CanSubmit(t)
    /\ IF exposure_start_ignored(expState)
       THEN /\ held' = Acquire(held, t, "bus_lock")
            /\ pc' = [pc EXCEPT ![t] = "ignored"]
            /\ UNCHANGED <<target, value>>
       ELSE \E T \in ExposureTargets :
              /\ target' = T
              /\ value' = T
              /\ IF IS_CONNECTED
                 THEN /\ expSeq < MaxExposures
                      /\ Free("usb_mutex")
                      /\ held' = Acquire(Acquire(held, t, "bus_lock"), t, "usb_mutex")
                      /\ pc' = [pc EXCEPT ![t] = "start"]
                 ELSE UNCHANGED <<held, pc>>
    /\ pub' = NoPub
    /\ UNCHANGED <<io, timeVars, drvVars, regVars, connVars, expState, imgState, exposure_timer, etimer, expSeq,
                   abortedEarly, starts, tempVars, lifeVars>>

\* The start that met BUSY returns INDIGO_OK, nothing touched.
StartIgnored(t) ==
    /\ pc[t] = "ignored"
    /\ held' = ReturnHeld(held, t)
    /\ pc' = ReturnPc(pc, t)
    /\ pub' = NoPub
    /\ UNCHANGED <<io, timeVars, drvVars, regVars, connVars, expVars, tempVars, lifeVars>>

\* dsi_start_exposure returns; handle_exposure_property publishes and schedules.
StartDone(t) ==
    /\ pc[t] = "start"
    /\ \E ok \in BOOLEAN :
         IF ok
         THEN /\ imgState' = "BUSY"
              /\ expState' = "BUSY"
              /\ pub' = Pub("CCD_EXPOSURE", "BUSY", FALSE, "ccd_change_property",
                                LocksOf(held, t) \ {"usb_mutex"})
              /\ expSeq' = expSeq + 1
              /\ etimer' = [etimer EXCEPT ![expSeq + 1] = first_callback(target)]
              /\ exposure_timer' = expSeq + 1
              /\ starts' = starts + 1
              /\ can_check_temperature' =
                     IF target > CLEAR_REG_LEAD THEN can_check_temperature ELSE FALSE
         ELSE /\ expState' = "ALERT"
              /\ pub' = Pub("CCD_EXPOSURE", "ALERT", TRUE, "ccd_change_property",
                                LocksOf(held, t) \ {"usb_mutex"})
              /\ starts' = 0
              /\ UNCHANGED <<imgState, expSeq, etimer, exposure_timer, can_check_temperature>>
    /\ held' = ReturnHeld(Release(held, t, "usb_mutex"), t)
    /\ pc' = ReturnPc(pc, t)
    /\ UNCHANGED <<io, timeVars, drvVars, regVars, connVars, target, value, abortedEarly, ttimer, lifeVars>>

(* ---- CCD_ABORT_EXPOSURE ---- *)
\* ccd_change_property, CCD_ABORT_EXPOSURE, up to camera_abort_exposure's dsi_abort_exposure.
Abort(t) ==
    /\ CanSubmit(t)
    /\ IF expState = "BUSY"
       THEN /\ Free("usb_mutex")
            /\ held' = Acquire(Acquire(held, t, "bus_lock"), t, "usb_mutex")
            /\ pc' = [pc EXCEPT ![t] = "abort"]
            /\ UNCHANGED can_check_temperature
       ELSE /\ can_check_temperature' = TRUE
            /\ UNCHANGED <<held, pc>>
    /\ pub' = NoPub
    /\ UNCHANGED <<io, timeVars, drvVars, regVars, connVars, expVars, ttimer, lifeVars>>

\* The base class on CCD_ABORT_EXPOSURE: an exposure in progress goes BUSY -> IDLE.
base_abort_state(state) == IF state = "BUSY" THEN "IDLE" ELSE state

\* dsi_abort_exposure returns; the request falls through to the base class.
AbortDone(t) ==
    /\ pc[t] = "abort"
    /\ can_check_temperature' = TRUE
    /\ expState' = base_abort_state(expState)
    /\ imgState' = IF expState = "BUSY" THEN base_abort_state(imgState) ELSE imgState
    /\ IF expState = "BUSY"
       THEN /\ pub' = Pub("CCD_EXPOSURE", base_abort_state(expState), FALSE,
                          "ccd_change_property",
                              LocksOf(held, t) \ {"usb_mutex"})
            /\ starts' = 0
            /\ abortedEarly' = IF expSeq \in Exposures /\ etimer[expSeq] \in {"clear_reg", "exposure"}
                               THEN abortedEarly \cup {expSeq}
                               ELSE abortedEarly
       ELSE /\ pub' = NoPub
            /\ UNCHANGED <<starts, abortedEarly>>
    /\ held' = ReturnHeld(Release(held, t, "usb_mutex"), t)
    /\ pc' = ReturnPc(pc, t)
    /\ UNCHANGED <<io, timeVars, drvVars, regVars, connVars, target, value, exposure_timer, etimer, expSeq,
                   ttimer, lifeVars>>

(* ---- CCD_GAIN, CCD_OFFSET ---- *)
\* The two branches have the same code, one for each property; "gain" is the pc
\* value of a thread inside dsi_set_amp_gain or dsi_set_amp_offset.
GainProperties == {"CCD_GAIN", "CCD_OFFSET"}

\* ccd_change_property, CCD_GAIN or CCD_OFFSET, up to the hardware call under usb_mutex.
SetGain(t) ==
    /\ CanSubmit(t)
    /\ Free("usb_mutex")
    /\ pc' = [pc EXCEPT ![t] = "gain"]
    /\ held' = Acquire(Acquire(held, t, "bus_lock"), t, "usb_mutex")
    /\ pub' = NoPub
    /\ UNCHANGED <<io, timeVars, drvVars, regVars, connVars, expVars, tempVars, lifeVars>>

\* The hardware call returns; the property is published only if IS_CONNECTED, and
\* the handler returns INDIGO_OK without the base class.
GainDone(t) ==
    /\ pc[t] = "gain"
    /\ \E prop \in GainProperties :
         /\ pub' = IF IS_CONNECTED
                   THEN Pub(prop, "OK", FALSE, "ccd_change_property",
                            LocksOf(held, t) \ {"usb_mutex"})
                   ELSE NoPub
    /\ held' = ReturnHeld(Release(held, t, "usb_mutex"), t)
    /\ pc' = ReturnPc(pc, t)
    /\ UNCHANGED <<io, timeVars, drvVars, regVars, connVars, expVars, tempVars, lifeVars>>

(* ---- timer callbacks: each runs on a worker of its own, taking no lock ---- *)
\* A timer fires after free(device): the callback reads and writes freed memory.
OnFreed(e) ==
    /\ freed
    /\ uaf' = TRUE
    /\ etimer' = [etimer EXCEPT ![e] = "none"]
    /\ abortedEarly' = abortedEarly \ {e}
    /\ pub' = NoPub
    /\ UNCHANGED <<io, timeVars, drvVars, regVars, thrVars, connVars, expState, imgState, target, value,
                   exposure_timer, expSeq, starts, tempVars, freed>>

\* clear_reg_timer_callback, CLEAR_REG_LEAD before the download.
ClearRegFire(e) ==
    /\ etimer[e] = "clear_reg"
    /\ \/ OnFreed(e)
       \/ /\ ~freed
          /\ IF ~connItem
             THEN /\ etimer' = [etimer EXCEPT ![e] = "none"]
                  /\ UNCHANGED <<can_check_temperature, exposure_timer>>
             ELSE IF expState = "BUSY"
             THEN /\ can_check_temperature' = FALSE
                  /\ etimer' = [etimer EXCEPT ![e] = "exposure"]
                  /\ exposure_timer' = e
             ELSE /\ exposure_timer' = NULL
                  /\ etimer' = [etimer EXCEPT ![e] = "none"]
                  /\ UNCHANGED can_check_temperature
          /\ pub' = NoPub
          /\ UNCHANGED <<io, timeVars, drvVars, regVars, thrVars, connVars, expState, imgState, target, value,
                         expSeq, starts, ttimer, lifeVars>>
          /\ abortedEarly' = { x \in abortedEarly : etimer'[x] # "none" }

\* A callback that leaves the item's value as the start set it.
exposure_fired_value_kept(v) == v

\* exposure_timer_callback: CCD_EXPOSURE_ITEM->number.value = 0 before the read.
exposure_fired_value(v) == 0

\* exposure_timer_callback up to camera_read_pixels' dsi_read_image.
ExposureFire(e) ==
    /\ etimer[e] = "exposure"
    /\ \/ OnFreed(e)
       \/ /\ ~freed
          /\ exposure_timer' = NULL
          /\ IF ~connItem
             THEN /\ etimer' = [etimer EXCEPT ![e] = "none"]
                  /\ pub' = NoPub
                  /\ UNCHANGED <<value, can_check_temperature>>
             ELSE IF expState = "BUSY"
             THEN /\ value' = exposure_fired_value(value)
                  /\ pub' = Pub("CCD_EXPOSURE", "BUSY", FALSE, "exposure_timer_callback", {})
                  /\ etimer' = [etimer EXCEPT ![e] = "reading"]
                  /\ UNCHANGED can_check_temperature
             ELSE /\ can_check_temperature' = TRUE
                  /\ etimer' = [etimer EXCEPT ![e] = "none"]
                  /\ pub' = NoPub
                  /\ UNCHANGED value
          /\ UNCHANGED <<io, timeVars, drvVars, regVars, thrVars, connVars, expState, imgState, target,
                         expSeq, starts, ttimer, lifeVars>>
          /\ abortedEarly' = { x \in abortedEarly : etimer'[x] # "none" }

\* indigo_process_image: the image is delivered, its property goes OK.
process_image_state(state) == "OK"

\* camera_read_pixels returns; the callback publishes OK or ALERT.
ReadDone(e) ==
    /\ etimer[e] = "reading"
    /\ \/ OnFreed(e)
       \/ /\ ~freed
          /\ \E ok \in BOOLEAN :
               IF ok
               THEN /\ imgState' = process_image_state(imgState)
                    /\ expState' = "OK"
                    /\ pub' = Pub("CCD_EXPOSURE", "OK", FALSE, "exposure_timer_callback", {})
               ELSE /\ expState' = "ALERT"
                    /\ pub' = Pub("CCD_EXPOSURE", "ALERT", TRUE, "exposure_timer_callback", {})
                    /\ UNCHANGED imgState
          /\ can_check_temperature' = TRUE
          /\ starts' = 0
          /\ etimer' = [etimer EXCEPT ![e] = "none"]
          /\ UNCHANGED <<io, timeVars, drvVars, regVars, thrVars, connVars, target, value, exposure_timer,
                         expSeq, ttimer, lifeVars>>
          /\ abortedEarly' = { x \in abortedEarly : etimer'[x] # "none" }

\* ccd_temperature_callback up to dsi_get_temperature.
TemperatureFire ==
    /\ ttimer = "pending"
    /\ IF freed
       THEN /\ uaf' = TRUE
            /\ ttimer' = "none"
       ELSE /\ ttimer' = IF ~connItem THEN "none"
                         ELSE IF can_check_temperature THEN "polling"
                         ELSE "pending"
            /\ UNCHANGED uaf
    /\ pub' = NoPub
    /\ UNCHANGED <<io, timeVars, drvVars, regVars, thrVars, connVars, expVars, can_check_temperature, freed>>

\* dsi_get_temperature returns; publish, then indigo_reschedule_timer as the last step.
TemperatureDone ==
    /\ ttimer = "polling"
    /\ IF freed
       THEN /\ uaf' = TRUE
            /\ ttimer' = "none"
            /\ pub' = NoPub
       ELSE /\ pub' = Pub("CCD_TEMPERATURE", "OK", FALSE, "ccd_temperature_callback", {})
            /\ ttimer' = "pending"
            /\ UNCHANGED uaf
    /\ UNCHANGED <<io, timeVars, drvVars, regVars, thrVars, connVars, expVars, can_check_temperature, freed>>

(* ---- hot-plug removal and shutdown ---- *)
\* The camera is pulled from the bus.
UsbRemove ==
    /\ InList(1, dev_list)
    /\ dev_list' = RemoveFrom(dev_list, 1)
    /\ pub' = NoPub
    /\ UNCHANGED <<io, timeVars, drvVars, devices, registered, dropped, leaked, attaching, thrVars, connVars, expVars,
                   tempVars, lifeVars>>

\* hotplug_callback for a LEFT event: pthread_mutex_lock(&device_mutex).
HotplugEnter ==
    /\ pc[HP] = "idle"
    /\ registered
    /\ ~InList(1, dev_list)
    /\ Free("device_mutex")
    /\ held' = Acquire(held, HP, "device_mutex")
    /\ pc' = [pc EXCEPT ![HP] = "unplug"]
    /\ pub' = NoPub
    /\ UNCHANGED <<io, timeVars, drvVars, regVars, connVars, expVars, tempVars, lifeVars>>

\* process_unplug_event: look for a bound slot the scan no longer shows.
ProcessUnplug ==
    /\ pc[HP] = "unplug"
    /\ IF find_unplugged_device_slot(devices, dev_list) = NOT_FOUND
       THEN /\ held' = Release(held, HP, "device_mutex")
            /\ pc' = [pc EXCEPT ![HP] = "idle"]
       ELSE /\ pc' = [pc EXCEPT ![HP] = "detach"]
            /\ UNCHANGED held
    /\ pub' = NoPub
    /\ UNCHANGED <<io, timeVars, drvVars, regVars, connVars, expVars, tempVars, lifeVars>>

\* indigo_ccd_dsi(INDIGO_DRIVER_SHUTDOWN): deregister, then remove_all_devices.
Shutdown ==
    /\ pc[MAIN] = "idle"
    /\ pc[HP] = "idle"
    /\ registered
    /\ registered' = FALSE
    /\ pc' = [pc EXCEPT ![MAIN] = IF devices[0] # NULL THEN "detach" ELSE "idle"]
    /\ pub' = NoPub
    /\ UNCHANGED <<io, timeVars, drvVars, devices, dev_list, dropped, leaked, attaching, held, connVars, expVars,
                   tempVars, lifeVars>>

\* indigo_detach_device -> ccd_detach: disconnect first if CONNECTED is on.
DetachBegin(t) ==
    /\ t \in {HP, MAIN}
    /\ pc[t] = "detach"
    /\ Free("bus_lock")
    /\ IF connItem
       THEN DisconnectBody(t, Acquire(held, t, "bus_lock"))
       ELSE /\ held' = Acquire(held, t, "bus_lock")
            /\ pc' = [pc EXCEPT ![t] = "free"]
            /\ UNCHANGED <<connItem, discItem, can_check_temperature>>
    /\ pub' = NoPub
    /\ UNCHANGED <<io, timeVars, drvVars, regVars, is_connected, connState, dsi, temperature_hidden, expVars,
                   ttimer, lifeVars>>

\* PRIVATE_DATA->dsi once the private data is disposed of: process_unplug_event
\* calls dsi_close_camera(private_data->dsi) on whatever the field holds, then frees
\* the block; remove_all_devices only frees it.
dsi_after_free(t, handle) == IF t = HP THEN "closed" ELSE handle

\* free(device), devices[slot] = NULL, the private data, the registry lock.
FreeDevice(t) ==
    /\ t \in {HP, MAIN}
    /\ pc[t] = "free"
    /\ freed' = TRUE
    /\ dsi' = dsi_after_free(t, dsi)
    /\ devices' = [devices EXCEPT ![0] = NULL]
    /\ held' = IF t = HP
               THEN Release(Release(held, t, "bus_lock"), t, "device_mutex")
               ELSE Release(held, t, "bus_lock")
    /\ pc' = [pc EXCEPT ![t] = "idle"]
    /\ pub' = NoPub
    /\ UNCHANGED <<io, timeVars, drvVars, dev_list, registered, dropped, leaked, attaching, is_connected, connItem,
                   discItem, connState, temperature_hidden, expVars, tempVars, uaf>>

Next ==
    \/ \E t \in Clients : Connect(t)
    \/ \E t \in Threads : OpenDone(t)
    \/ \E t \in Threads : ProbeBegin(t)
    \/ \E t \in Threads : ProbeDone(t)
    \/ \E t \in Clients : Disconnect(t)
    \/ \E t \in Threads : CancelTimer(t)
    \/ \E t \in Threads : CloseDone(t)
    \/ \E t \in Clients : Start(t)
    \/ \E t \in Clients : StartIgnored(t)
    \/ \E t \in Threads : StartDone(t)
    \/ \E t \in Clients : Abort(t)
    \/ \E t \in Threads : AbortDone(t)
    \/ \E e \in Exposures : ClearRegFire(e)
    \/ \E e \in Exposures : ExposureFire(e)
    \/ \E e \in Exposures : ReadDone(e)
    \/ TemperatureFire
    \/ TemperatureDone
    \/ UsbRemove
    \/ HotplugEnter
    \/ ProcessUnplug
    \/ Shutdown
    \/ \E t \in {HP, MAIN} : DetachBegin(t)
    \/ \E t \in {HP, MAIN} : FreeDevice(t)

Spec == Init /\ [][Next]_vars

\* GainSpec: Spec with the CCD_GAIN and CCD_OFFSET requests added.  These requests
\* write none of the fields the other handlers and the callbacks read.
GainNext ==
    \/ Next
    \/ \E t \in Clients : SetGain(t)
    \/ \E t \in Clients : GainDone(t)

GainSpec == Init /\ [][GainNext]_vars

(***************************************************************************)
(* IoSpec: the raw I/O helpers of indigo_io.c.  Each action is one call:   *)
(* it draws the arguments and what the handle does, read(2) or write(2)    *)
(* call by call, and records the result the helper computes; calls follow  *)
(* one another.                                                            *)
(*                                                                         *)
(* A script lists what the successive calls on the handle answer: -1 is a  *)
(* failure, n >= 0 is a transfer of at most n bytes (never more than the   *)
(* call asked for, never more than the stream still holds); once the       *)
(* script is used up the handle transfers all it is asked for.  Lengths    *)
(* and counts stay far inside the range of int, where the (int) casts of   *)
(* the results change nothing.                                             *)
(***************************************************************************)
MaxLen == 3
MaxScript == 2

Bytes == {"x", "CR", "LF"}
Lengths == 0 .. MaxLen
SeqsUpTo(S, n) == UNION { [1 .. k -> S] : k \in 0 .. n }
Buffers == SeqsUpTo(Bytes, MaxLen)
Scripts == SeqsUpTo(-1 .. MaxLen, MaxScript)

Min(a, b) == IF a <= b THEN a ELSE b

\* The answers left for the calls to come.
Rest(script) == IF script = <<>> THEN <<>> ELSE Tail(script)

\* What one write(handle, buffer, remains) answers.
write_call(script, remains) ==
    IF script = <<>> THEN remains
    ELSE IF Head(script) < 0 THEN -1
    ELSE Min(Head(script), remains)

\* What one read(handle, buffer, remains) answers; 0 is the end of the stream.
read_call(script, remains, avail) ==
    IF script = <<>> THEN Min(remains, avail)
    ELSE IF Head(script) < 0 THEN -1
    ELSE Min(Head(script), Min(remains, avail))

\* A retry that starts again at the same place of the buffer.
write_no_advance(buffer, bytes_written) == buffer

\* indigo_write: buffer += bytes_written.
write_advance(buffer, bytes_written) == buffer + bytes_written

\* indigo_write's loop; buffer is the offset into data, sink what the handle got.
RECURSIVE indigo_write(_, _, _, _, _, _)
indigo_write(data, buffer, remains, script, sink, calls) ==
    LET bytes_written == write_call(script, remains)
        handed == SubSeq(data, buffer + 1, buffer + bytes_written)
    IN  IF bytes_written < 0
        THEN [ok |-> FALSE, sink |-> sink, calls |-> calls + 1]
        ELSE IF bytes_written = remains
        THEN [ok |-> TRUE, sink |-> sink \o handed, calls |-> calls + 1]
        ELSE indigo_write(data, write_advance(buffer, bytes_written),
                          remains - bytes_written, Rest(script), sink \o handed, calls + 1)

\* A count that keeps only the latest read.
read_total_last(total_bytes, bytes_read) == bytes_read

\* indigo_read: total_bytes += bytes_read.
read_total(total_bytes, bytes_read) == total_bytes + bytes_read

\* indigo_read's loop; offset is how far the stream was consumed, buffer what was stored.
RECURSIVE indigo_read(_, _, _, _, _, _)
indigo_read(stream, offset, remains, total_bytes, script, buffer) ==
    LET bytes_read == read_call(script, remains, Len(stream) - offset)
        stored == buffer \o SubSeq(stream, offset + 1, offset + bytes_read)
    IN  IF bytes_read <= 0
        THEN [ret |-> bytes_read, buffer |-> buffer]
        ELSE IF bytes_read = remains
        THEN [ret |-> read_total(total_bytes, bytes_read), buffer |-> stored]
        ELSE indigo_read(stream, offset + bytes_read, remains - bytes_read,
                         read_total(total_bytes, bytes_read), Rest(script), stored)

\* A reader that stores carriage returns like any other byte.
cr_never_dropped(c) == FALSE

\* indigo_read_line: if (c == '\r') ;
cr_dropped(c) == c = "CR"

\* indigo_read_line's loop, one byte a read; a read past the end of the stream
\* fails.  nul is the index the terminator is written at, -1 if none is written.
RECURSIVE indigo_read_line(_, _, _, _)
indigo_read_line(stream, offset, length, buffer) ==
    IF Len(buffer) < length
    THEN IF offset >= Len(stream)
         THEN [ret |-> -1, buffer |-> buffer, nul |-> -1, consumed |-> offset]
         ELSE LET c == stream[offset + 1]
              IN  IF cr_dropped(c)
                  THEN indigo_read_line(stream, offset + 1, length, buffer)
                  ELSE IF c # "LF"
                  THEN indigo_read_line(stream, offset + 1, length, Append(buffer, c))
                  ELSE [ret |-> Len(buffer), buffer |-> buffer,
                        nul |-> Len(buffer), consumed |-> offset + 1]
    ELSE [ret |-> Len(buffer), buffer |-> buffer,
          nul |-> Len(buffer), consumed |-> offset]

IoInit == RegInit

\* indigo_write(handle, data, Len(data)).
IoWrite ==
    /\ io = IoIdle
    /\ \E data \in Buffers : \E script \in Scripts :
        /\ io' = [op |-> "write", data |-> data, script |-> script,
                  res |-> indigo_write(data, 0, Len(data), script, <<>>, 0)]
        /\ UNCHANGED <<regVars, devVars, timeVars, drvVars>>

\* indigo_read(handle, buffer, length) on a handle that holds stream.
IoRead ==
    /\ io = IoIdle
    /\ \E stream \in Buffers : \E length \in Lengths : \E script \in Scripts :
        /\ io' = [op |-> "read", stream |-> stream, length |-> length, script |-> script,
                  res |-> indigo_read(stream, 0, length, 0, script, <<>>)]
        /\ UNCHANGED <<regVars, devVars, timeVars, drvVars>>

\* indigo_read_line(handle, buffer, length) on a handle that holds stream.
IoReadLine ==
    /\ io = IoIdle
    /\ \E stream \in Buffers : \E length \in Lengths :
        /\ io' = [op |-> "read_line", stream |-> stream, length |-> length,
                  res |-> indigo_read_line(stream, 0, length, <<>>)]
        /\ UNCHANGED <<regVars, devVars, timeVars, drvVars>>

(* ---- serial line configuration ---- *)
\* The mode part "8N1" has exactly this many characters.
MODE_LEN == 3

\* The character of a C string at index i (from 1): past its end comes the NUL.
CharAt(str, i) == IF i <= Len(str) THEN str[i] ELSE "NUL"

\* strncmp(a, b, n) == 0: the first n characters agree, up to and including a NUL.
strncmp_equal(a, b, n) ==
    \A i \in 1 .. Min(n, Len(a) + 1) : CharAt(a, i) = CharAt(b, i)

\* Rows of the baud table br[]: BR(str, val) is { val, sizeof(str), str }, the
\* size counting the NUL; the last row is the sentinel BR("", 0).  The values are
\* the termios codes B50 and B9600.
BR(str, val) == [value |-> val, len |-> Len(str) + 1, str |-> str]
br == << BR(<<"5", "0">>, 1), BR(<<"9", "6", "0", "0">>, 13), BR(<<>>, 0) >>

\* map_str_baudrate: walk the table until a row compares equal; -1 at the sentinel.
RECURSIVE map_str_baudrate(_, _)
map_str_baudrate(brp, baudrate) ==
    IF ~strncmp_equal(br[brp].str, baudrate, br[brp].len)
    THEN IF br[brp].str = <<>> THEN -1 ELSE map_str_baudrate(brp + 1, baudrate)
    ELSE br[brp].value

\* strchr(copy, '-'): the index of the first '-', 0 if there is none.
strchr(copy, c) ==
    IF \E i \in 1 .. Len(copy) : copy[i] = c
    THEN CHOOSE i \in 1 .. Len(copy) : copy[i] = c /\ \A j \in 1 .. (i - 1) : copy[j] # c
    ELSE 0

\* configure_tty_options: 0 and the options, or -1 with errno EINVAL.  The strings
\* are shorter than copy[32], so the strncpy keeps them whole.
configure_tty_options(baudrate) ==
    LET dash == strchr(baudrate, "-")
        copy == SubSeq(baudrate, 1, dash - 1)
        mode == SubSeq(baudrate, dash + 1, Len(baudrate))
        baudr == map_str_baudrate(1, copy)
        invalid == [ret |-> -1, errno |-> "EINVAL"]
    IN  IF dash = 0 THEN invalid
        ELSE IF baudr = -1 THEN invalid
        ELSE IF Len(mode) # MODE_LEN THEN invalid
        ELSE IF mode[1] \notin {"8", "7", "6", "5"} THEN invalid
        ELSE IF mode[2] \notin {"N", "n", "E", "e", "O", "o"} THEN invalid
        ELSE IF mode[3] \notin {"1", "2"} THEN invalid
        ELSE [ret |-> 0, errno |-> "none", baudr |-> baudr]

\* What open_tty meets: open(2) fails, tcsetattr fails (the descriptor is closed
\* again), or both succeed.
TtyOutcomes == {"no_device", "no_attr", "ok"}

\* indigo_open_serial_with_config: opened tells whether open(2) was reached.
indigo_open_serial_with_config(baudconfig, tty) ==
    LET res == configure_tty_options(baudconfig)
    IN  IF res.ret = -1
        THEN [ret |-> -1, errno |-> res.errno, opened |-> FALSE, baudr |-> -1]
        ELSE [ret |-> IF tty = "ok" THEN 3 ELSE -1,
              errno |-> IF tty = "ok" THEN "none" ELSE "EIO",
              opened |-> TRUE, baudr |-> res.baudr]

\* The configuration strings tried: a baud part, with or without the '-', and a mode
\* part of up to one character more than the mode has.
BaudStrings == { <<>>, <<"5", "0">>, <<"9", "6", "0", "0">>, <<"9", "6">>,
                 <<"9", "6", "0", "0", "0">>, <<"x">> }
ModeChars == {"5", "8", "4", "N", "e", "O", "x", "1", "2", "0"}
ModeStrings == SeqsUpTo(ModeChars, MODE_LEN + 1)
Separators == { <<>>, <<"-">> }

\* indigo_open_serial_with_config(dev_file, baudconfig).
IoOpenSerial ==
    /\ io = IoIdle
    /\ \E baud \in BaudStrings : \E sep \in Separators : \E mode \in ModeStrings :
       \E tty \in TtyOutcomes :
        /\ io' = [op |-> "open_serial", baudconfig |-> baud \o sep \o mode,
                  res |-> indigo_open_serial_with_config(baud \o sep \o mode, tty)]
        /\ UNCHANGED <<regVars, devVars, timeVars, drvVars>>

(* ---- TCP and UDP sockets ---- *)
\* The system call of indigo_open_tcp / indigo_open_udp that fails, if any.
SocketFailures == {"none", "gethostbyname", "socket", "connect", "SO_RCVTIMEO", "SO_SNDTIMEO"}

\* The body the two functions share, SOCK_STREAM or SOCK_DGRAM apart: the value
\* returned, whether socket() made a descriptor, whether close() was called on it.
open_socket(type, fails) ==
    IF fails = "gethostbyname" THEN [type |-> type, ret |-> -1, created |-> FALSE, closed |-> FALSE]
    ELSE IF fails = "socket" THEN [type |-> type, ret |-> -1, created |-> FALSE, closed |-> FALSE]
    ELSE IF fails = "connect" THEN [type |-> type, ret |-> -1, created |-> TRUE, closed |-> FALSE]
    ELSE IF fails = "SO_RCVTIMEO" THEN [type |-> type, ret |-> -1, created |-> TRUE, closed |-> TRUE]
    ELSE IF fails = "SO_SNDTIMEO" THEN [type |-> type, ret |-> -1, created |-> TRUE, closed |-> TRUE]
    ELSE [type |-> type, ret |-> 3, created |-> TRUE, closed |-> FALSE]

indigo_open_tcp(fails) == open_socket("SOCK_STREAM", fails)

indigo_open_udp(fails) == open_socket("SOCK_DGRAM", fails)

\* indigo_open_tcp(host, port).
IoOpenTcp ==
    /\ io = IoIdle
    /\ \E fails \in SocketFailures :
        /\ io' = [op |-> "open_tcp", fails |-> fails, res |-> indigo_open_tcp(fails)]
        /\ UNCHANGED <<regVars, devVars, timeVars, drvVars>>

\* indigo_open_udp(host, port).
IoOpenUdp ==
    /\ io = IoIdle
    /\ \E fails \in SocketFailures :
        /\ io' = [op |-> "open_udp", fails |-> fails, res |-> indigo_open_udp(fails)]
        /\ UNCHANGED <<regVars, devVars, timeVars, drvVars>>

\* The caller has taken the result; the next call can start.
IoReturn ==
    /\ io # IoIdle
    /\ io' = IoIdle
    /\ UNCHANGED <<regVars, devVars, timeVars, drvVars>>

IoNext ==
    \/ IoWrite
    \/ IoRead
    \/ IoReadLine
    \/ IoOpenSerial
    \/ IoOpenTcp
    \/ IoOpenUdp
    \/ IoReturn

IoSpec == IoInit /\ [][IoNext]_vars

(***************************************************************************)
(* TimeSpec: the exposure timers against the scheduler's clock.  The       *)
(* device is connected; a handler or a callback runs to its end within one *)
(* instant (the hardware calls take no time of the clock), a timer set     *)
(* with delay d at time t fires at t + d, and the clock moves on only when *)
(* every timer due has fired.  Delays are whole units.                     *)
(***************************************************************************)
MaxTime == 12

\* The durations asked for: those of Spec and the two around the 4-unit lead.
TimedTargets == ExposureTargets \cup {CLEAR_REG_LEAD, CLEAR_REG_LEAD + 1}

\* handle_exposure_property: the delay of the timer the start sets.
first_delay(T) == IF T > CLEAR_REG_LEAD THEN T - CLEAR_REG_LEAD ELSE T

\* clear_reg_timer_callback: indigo_set_timer(device, 4, exposure_timer_callback).
second_delay == CLEAR_REG_LEAD

\* The device after a connect that found a sensor; the clock starts at 0.
TimeInit ==
    /\ devices = [slot \in Slots |-> IF slot = 0 THEN 1 ELSE NULL]
    /\ dev_list = <<1>>
    /\ registered = TRUE
    /\ dropped = {}
    /\ leaked = 0
    /\ attaching = {}
    /\ io = IoIdle
    /\ held = [t \in Threads |-> <<>>]
    /\ pc = [t \in Threads |-> "idle"]
    /\ is_connected = TRUE
    /\ connItem = TRUE
    /\ discItem = FALSE
    /\ connState = "OK"
    /\ dsi = "open"
    /\ temperature_hidden = FALSE
    /\ expState = "IDLE"
    /\ imgState = "IDLE"
    /\ target = 0
    /\ value = 0
    /\ exposure_timer = NULL
    /\ etimer = [e \in Exposures |-> "none"]
    /\ expSeq = 0
    /\ abortedEarly = {}
    /\ starts = 0
    /\ can_check_temperature = TRUE
    /\ ttimer = "pending"
    /\ freed = FALSE
    /\ uaf = FALSE
    /\ pub = NoPub
    /\ now = 0
    /\ due = [e \in Exposures |-> 0]
    /\ began = [e \in Exposures |-> 0]
    /\ last_action = "INDIGO_DRIVER_INIT"
    /\ entry = EntryOfInit

\* Some timer of an exposure chain is due and has not fired yet.
TimerDue == \E e \in Exposures : etimer[e] \in {"clear_reg", "exposure"} /\ due[e] <= now

\* The clock moves on by one unit.
Tick ==
    /\ now < MaxTime
    /\ ~TimerDue
    /\ now' = now + 1
    /\ pub' = NoPub
    /\ UNCHANGED <<io, drvVars, regVars, thrVars, connVars, expVars, tempVars, lifeVars, due,
                   began>>

\* ccd_change_property, CCD_EXPOSURE, from the BUSY test to handle_exposure_property's
\* indigo_set_timer.
TimedStart ==
    /\ ~exposure_start_ignored(expState)
    /\ IS_CONNECTED
    /\ expSeq < MaxExposures
    /\ \E T \in TimedTargets : \E ok \in BOOLEAN :
         /\ target' = T
         /\ value' = T
         /\ IF ok
            THEN /\ imgState' = "BUSY"
                 /\ expState' = "BUSY"
                 /\ pub' = Pub("CCD_EXPOSURE", "BUSY", FALSE, "ccd_change_property", {"bus_lock"})
                 /\ expSeq' = expSeq + 1
                 /\ etimer' = [etimer EXCEPT ![expSeq + 1] = first_callback(T)]
                 /\ exposure_timer' = expSeq + 1
                 /\ due' = [due EXCEPT ![expSeq + 1] = now + first_delay(T)]
                 /\ began' = [began EXCEPT ![expSeq + 1] = now]
                 /\ starts' = starts + 1
                 /\ can_check_temperature' =
                        IF T > CLEAR_REG_LEAD THEN can_check_temperature ELSE FALSE
            ELSE /\ expState' = "ALERT"
                 /\ pub' = Pub("CCD_EXPOSURE", "ALERT", TRUE, "ccd_change_property", {"bus_lock"})
                 /\ starts' = 0
                 /\ UNCHANGED <<imgState, expSeq, etimer, exposure_timer, due, began,
                                can_check_temperature>>
    /\ UNCHANGED <<io, drvVars, regVars, thrVars, connVars, abortedEarly, ttimer, lifeVars, now>>

\* ccd_change_property, CCD_ABORT_EXPOSURE, and the base class after it: no timer
\* is cancelled.
TimedAbort ==
    /\ expState = "BUSY"
    /\ can_check_temperature' = TRUE
    /\ expState' = base_abort_state(expState)
    /\ imgState' = base_abort_state(imgState)
    /\ pub' = Pub("CCD_EXPOSURE", base_abort_state(expState), FALSE, "ccd_change_property",
                  {"bus_lock"})
    /\ starts' = 0
    /\ abortedEarly' = IF expSeq \in Exposures /\ etimer[expSeq] \in {"clear_reg", "exposure"}
                       THEN abortedEarly \cup {expSeq}
                       ELSE abortedEarly
    /\ UNCHANGED <<io, drvVars, regVars, thrVars, connVars, target, value, exposure_timer,
                   etimer, expSeq, ttimer, lifeVars, timeVars>>

\* clear_reg_timer_callback, fired by the scheduler when its delay has passed.
TimedClearReg(e) ==
    /\ etimer[e] = "clear_reg"
    /\ due[e] = now
    /\ IF ~connItem
       THEN /\ etimer' = [etimer EXCEPT ![e] = "none"]
            /\ UNCHANGED <<can_check_temperature, exposure_timer, due>>
       ELSE IF expState = "BUSY"
       THEN /\ can_check_temperature' = FALSE
            /\ etimer' = [etimer EXCEPT ![e] = "exposure"]
            /\ exposure_timer' = e
            /\ due' = [due EXCEPT ![e] = now + second_delay]
       ELSE /\ exposure_timer' = NULL
            /\ etimer' = [etimer EXCEPT ![e] = "none"]
            /\ UNCHANGED <<can_check_temperature, due>>
    /\ abortedEarly' = { x \in abortedEarly : etimer'[x] # "none" }
    /\ pub' = NoPub
    /\ UNCHANGED <<io, drvVars, regVars, thrVars, connVars, expState, imgState, target,
                   value, expSeq, starts, ttimer, lifeVars, now, began>>

\* exposure_timer_callback, fired by the scheduler when its delay has passed: the
\* image read and the publication of its result.
TimedExposure(e) ==
    /\ etimer[e] = "exposure"
    /\ due[e] = now
    /\ exposure_timer' = NULL
    /\ etimer' = [etimer EXCEPT ![e] = "none"]
    /\ IF ~connItem
       THEN /\ pub' = NoPub
            /\ UNCHANGED <<value, expState, imgState, starts, can_check_temperature>>
       ELSE IF expState = "BUSY"
       THEN /\ value' = exposure_fired_value(value)
            /\ \E ok \in BOOLEAN :
                 IF ok
                 THEN /\ imgState' = process_image_state(imgState)
                      /\ expState' = "OK"
                      /\ pub' = Pub("CCD_EXPOSURE", "OK", FALSE, "exposure_timer_callback", {})
                 ELSE /\ expState' = "ALERT"
                      /\ pub' = Pub("CCD_EXPOSURE", "ALERT", TRUE, "exposure_timer_callback", {})
                      /\ UNCHANGED imgState
            /\ can_check_temperature' = TRUE
            /\ starts' = 0
       ELSE /\ can_check_temperature' = TRUE
            /\ pub' = NoPub
            /\ UNCHANGED <<value, expState, imgState, starts>>
    /\ abortedEarly' = { x \in abortedEarly : etimer'[x] # "none" }
    /\ UNCHANGED <<io, drvVars, regVars, thrVars, connVars, target, expSeq, ttimer,
                   lifeVars, timeVars>>

TimeNext ==
    \/ Tick
    \/ TimedStart
    \/ TimedAbort
    \/ \E e \in Exposures : TimedClearReg(e)
    \/ \E e \in Exposures : TimedExposure(e)

TimeSpec == TimeInit /\ [][TimeNext]_vars

(***************************************************************************)
(* DriverSpec: the entry point indigo_ccd_dsi(action, info), called with   *)
(* INIT, SHUTDOWN and INFO in any order, the hot-plug events of RegSpec    *)
(* arriving in between.  libusb_hotplug_register_callback may fail.        *)
(***************************************************************************)
DriverActions == {"INDIGO_DRIVER_INIT", "INDIGO_DRIVER_SHUTDOWN", "INDIGO_DRIVER_INFO"}

\* if (action == last_action) return INDIGO_OK;
same_as_last(action, last) == action = last

\* last_action after the call: INIT and SHUTDOWN record themselves before they do
\* anything else.
entry_last_action(action, last) ==
    IF same_as_last(action, last) THEN last
    ELSE IF action = "INDIGO_DRIVER_INFO" THEN last
    ELSE action

\* return rc >= 0 ? INDIGO_OK : INDIGO_FAILED;
init_result(rc_ok) == IF rc_ok THEN "INDIGO_OK" ELSE "INDIGO_FAILED"

\* Before any INIT: nothing registered, no device, last_action is SHUTDOWN.
DriverSpecInit ==
    /\ devices = [slot \in Slots |-> NULL]
    /\ dev_list = <<>>
    /\ registered = FALSE
    /\ dropped = {}
    /\ leaked = 0
    /\ attaching = {}
    /\ io = IoIdle
    /\ held = [t \in Threads |-> <<>>]
    /\ pc = [t \in Threads |-> "idle"]
    /\ is_connected = FALSE
    /\ connItem = FALSE
    /\ discItem = TRUE
    /\ connState = "IDLE"
    /\ dsi = "null"
    /\ temperature_hidden = TRUE
    /\ expState = "IDLE"
    /\ imgState = "IDLE"
    /\ target = 0
    /\ value = 0
    /\ exposure_timer = NULL
    /\ etimer = [e \in Exposures |-> "none"]
    /\ expSeq = 0
    /\ abortedEarly = {}
    /\ starts = 0
    /\ can_check_temperature = FALSE
    /\ ttimer = "none"
    /\ freed = FALSE
    /\ uaf = FALSE
    /\ pub = NoPub
    /\ now = 0
    /\ due = [e \in Exposures |-> 0]
    /\ began = [e \in Exposures |-> 0]
    /\ last_action = "INDIGO_DRIVER_SHUTDOWN"
    /\ entry = Entry("none", FALSE, FALSE, "INDIGO_OK")

\* indigo_ccd_dsi(INDIGO_DRIVER_INIT, info); rc_ok tells whether
\* libusb_hotplug_register_callback succeeds.
EntryInit ==
    \E rc_ok \in BOOLEAN :
        /\ last_action' = entry_last_action("INDIGO_DRIVER_INIT", last_action)
        /\ IF same_as_last("INDIGO_DRIVER_INIT", last_action)
           THEN /\ entry' = Entry("INDIGO_DRIVER_INIT", registered, FALSE, "INDIGO_OK")
                /\ UNCHANGED registered
           ELSE /\ entry' = Entry("INDIGO_DRIVER_INIT", registered, rc_ok, init_result(rc_ok))
                /\ registered' = (registered \/ rc_ok)
        /\ UNCHANGED <<io, timeVars, devices, dev_list, dropped, leaked, attaching, devVars>>

\* indigo_ccd_dsi(INDIGO_DRIVER_SHUTDOWN, info): deregister, then remove_all_devices.
EntryShutdown ==
    /\ last_action' = entry_last_action("INDIGO_DRIVER_SHUTDOWN", last_action)
    /\ entry' = Entry("INDIGO_DRIVER_SHUTDOWN", registered, FALSE, "INDIGO_OK")
    /\ IF same_as_last("INDIGO_DRIVER_SHUTDOWN", last_action)
       THEN UNCHANGED <<registered, devices, dropped, attaching>>
       ELSE /\ registered' = FALSE
            /\ devices' = remove_all_devices(devices)
            /\ dropped' = {}
            /\ attaching' = { slot \in attaching : devices'[slot] # NULL }
    /\ UNCHANGED <<io, timeVars, dev_list, leaked, devVars>>

\* indigo_ccd_dsi(INDIGO_DRIVER_INFO, info): the info is filled in, nothing else.
EntryInfo ==
    /\ last_action' = entry_last_action("INDIGO_DRIVER_INFO", last_action)
    /\ entry' = Entry("INDIGO_DRIVER_INFO", registered, FALSE, "INDIGO_OK")
    /\ UNCHANGED <<io, timeVars, regVars, devVars>>

DriverNext ==
    \/ EntryInit
    \/ EntryShutdown
    \/ EntryInfo
    \/ UsbArrive
    \/ UsbLeave
    \/ PlugEvent
    \/ AttachDone
    \/ UnplugEvent

DriverSpec == DriverSpecInit /\ [][DriverNext]_vars

(***************************************************************************)
(* Claims.                                                                 *)
(***************************************************************************)
Occupied == { slot \in Slots : devices[slot] # NULL }

\* C1: after any sequence of arrival events, removal events and shutdown, no
\* two occupied slots of devices[] are bound to the same dev_sid, and the
\* number of occupied slots never exceeds MAX_DEVICES.
C1_UniqueIdentity ==
    /\ \A a, b \in Occupied : devices[a] = devices[b] => a = b
    /\ Cardinality(Occupied) <= MAX_DEVICES
    /\ \A slot \in Occupied : devices[slot] \in Sids

\* C1 witness: the table is full, of distinct identities, while one more
\* camera is visible and unbound (its arrival was dropped).
C1_Witness ==
    /\ Cardinality(Occupied) = MAX_DEVICES
    /\ MAX_DEVICES >= 2
    /\ \E sid \in Sids : InList(sid, dev_list) /\ ~BoundIn(devices, sid)

(***************************************************************************)
(* Claims on the device of slot 0 (Spec).                                  *)
(***************************************************************************)
\* The pc values at which a thread is inside a hardware call of libdsi.
HwLabels == {"open", "probe", "close", "start", "abort", "gain"}

\* The hardware calls in progress on the camera handle, each with whether its
\* caller holds usb_mutex; camera_read_pixels and ccd_temperature_callback lock nothing.
HwCalls ==
    { [by |-> <<"thread", t>>, locked |-> Holds(t, "usb_mutex")] :
          t \in { u \in Threads : pc[u] \in HwLabels } }
    \cup { [by |-> <<"exposure_timer_callback", e>>, locked |-> FALSE] :
          e \in { x \in Exposures : etimer[x] = "reading" } }
    \cup { [by |-> <<"ccd_temperature_callback", 0>>, locked |-> FALSE] :
          z \in { x \in {0} : ttimer = "polling" } }

\* The pc values at which a thread is inside ccd_change_property.
HandlerLabels == HwLabels \cup {"probe_lock", "cancel", "ignored"}

LiveExposureTimers == { e \in Exposures : etimer[e] # "none" }

\* C2: an abort request handled while CCD_EXPOSURE is BUSY leaves it IDLE by
\* the time the request returns, whatever the timer and the hardware abort do.
C2_AbortReturnsIdle ==
    [][\A t \in Clients :
          (pc[t] = "abort" /\ pc'[t] = "idle") => expState' = "IDLE"]_vars

\* C3: no callback scheduled for an exposure that was aborted before its timer
\* fired later reads the image (and so publishes OK or ALERT).
C3_StaleCompletionDiscarded ==
    \A e \in abortedEarly : etimer[e] # "reading"

\* C4: a BUSY exposure property always has a live timer of its device (or a
\* hardware call that will resolve it), also after a disconnect or a removal.
C4_BusyHasOwner ==
    (Attached /\ expState = "BUSY") => LiveExposureTimers # {}

\* C5: once the exposure timer callback has fired, read (the image or a
\* failure) and returned, and no hardware call is outstanding, neither
\* CCD_EXPOSURE nor the image property is BUSY.
C5_NoBusyAfterTimer ==
    (/\ Attached
     /\ pub.by = "exposure_timer_callback"
     /\ pub.state \in {"OK", "ALERT"}
     /\ LiveExposureTimers = {}
     /\ HwCalls = {})
        => (expState # "BUSY" /\ imgState # "BUSY")

\* C6: when the device is freed, every timer of it has been cancelled, so no
\* timer callback ever runs on the freed device.
C6_TimersCancelledBeforeFree ==
    /\ freed => (LiveExposureTimers = {} /\ ttimer = "none")
    /\ ~uaf

C8_HardwareUnderLock ==
    /\ \A c \in HwCalls : c.locked
    /\ Cardinality(HwCalls) <= 1

\* C9: every indigo_update_property is made while the publisher holds the
\* device lock that serialized the mutation.
C9_PublishUnderLock ==
    pub.prop # "none" => pub.locks # {}

\* C10: no thread acquires device_mutex while holding usb_mutex; where both
\* are held, device_mutex was taken first.
C10_LockOrder ==
    \A t \in Threads : \A i, j \in 1 .. Len(held[t]) :
        (held[t][i] = "usb_mutex" /\ held[t][j] = "device_mutex") => j < i

\* C10 witness: the hot-plug thread inside camera_close, holding device_mutex
\* and, taken after it, usb_mutex.
C10_Witness ==
    /\ pc[HP] = "close"
    /\ Holds(HP, "device_mutex")
    /\ Holds(HP, "usb_mutex")

\* C11: every write of the devices[] slot table is made by a thread that holds
\* device_mutex, in arrival and removal processing and in driver shutdown.
C11_TableUnderRegistryLock ==
    [][devices' # devices => \E t \in Threads : Holds(t, "device_mutex")]_vars

\* C12: a start request that meets a BUSY exposure is ignored: it goes to no
\* hardware start, and neither its entry nor its return changes the exposure
\* item's value or target, the property states, the timers or the starts made.
C12_StartWhileBusyIgnored ==
    [][\A t \in Clients :
          /\ (expState = "BUSY" /\ pc[t] = "idle" /\ pc'[t] \in {"start", "ignored"})
                => (pc'[t] = "ignored" /\ UNCHANGED expVars)
          /\ (pc[t] = "ignored" /\ pc'[t] # "ignored")
                => UNCHANGED expVars]_vars

\* C12 witness: a start request is being turned away while the image of the
\* running exposure is read.
C12_Witness ==
    /\ \E t \in Clients : pc[t] = "ignored"
    /\ expState = "BUSY"
    /\ \E e \in Exposures : etimer[e] = "reading"

\* C13: a start whose hardware start succeeds returns with CCD_EXPOSURE BUSY,
\* published, and a timer scheduled; the image read of that exposure, when it
\* succeeds with the exposure still BUSY and no later start accepted, leaves
\* CCD_EXPOSURE OK, published, the item's value zero and the image delivered.
C13_StartBusyThenOK ==
    [][/\ \A t \in Clients :
            (pc[t] = "start" /\ pc'[t] # "start" /\ expState' # "ALERT")
              => /\ expState' = "BUSY"
                 /\ pub'.prop = "CCD_EXPOSURE" /\ pub'.state = "BUSY"
                 /\ exposure_timer' # NULL
                 /\ etimer'[exposure_timer'] \in {"clear_reg", "exposure"}
       /\ \A e \in Exposures :
            (/\ etimer[e] = "reading" /\ etimer'[e] = "none"
             /\ e = expSeq /\ expState = "BUSY" /\ ~freed
             /\ expState' # "ALERT")
              => /\ expState' = "OK"
                 /\ pub'.prop = "CCD_EXPOSURE" /\ pub'.state = "OK"
                 /\ value' = 0
                 /\ imgState' = "OK"]_vars

\* C13 witness: the timer callback has just published the OK of an exposure:
\* value zero, image delivered.
C13_Witness ==
    /\ pub.by = "exposure_timer_callback"
    /\ pub.state = "OK"
    /\ expState = "OK"
    /\ imgState = "OK"
    /\ value = 0
    /\ target > 0

\* C14: every ALERT a hardware failure is converted into is published with a
\* message.
C14_AlertCarriesMessage ==
    (pub.prop # "none" /\ pub.state = "ALERT") => pub.msg

(***************************************************************************)
(* Claims on the hot-plug registry (RegSpec).                              *)
(***************************************************************************)
FreeSlots == { slot \in Slots : devices[slot] = NULL }

\* The occupied slots whose identity the scan no longer shows.
GoneSlots == { slot \in Occupied : ~InList(devices[slot], dev_list) }

\* C15: process_plug_event drops the event, leaving the table as it was, when
\* no slot is free, no unbound identity is visible or the camera cannot be
\* opened; otherwise it binds one visible unbound identity to one free slot
\* and changes no other slot.
C15_PlugBindsOneOrDrops ==
    \A canOpen \in BOOLEAN :
        LET after == process_plug_event(devices, dev_list, canOpen)
            changed == { slot \in Slots : after[slot] # devices[slot] }
            candidates == VisibleUnbound(devices, dev_list)
        IN  IF FreeSlots = {} \/ candidates = {} \/ ~canOpen
            THEN changed = {}
            ELSE \E slot \in Slots :
                   /\ changed = {slot}
                   /\ devices[slot] = NULL
                   /\ after[slot] \in candidates

\* C15 witness: an arrival has bound a device, and the next one has a free
\* slot and a visible unbound camera to bind.
C15_Witness ==
    /\ Occupied # {}
    /\ FreeSlots # {}
    /\ VisibleUnbound(devices, dev_list) # {}

\* C16: a camera whose arrival met a full table, still visible and unbound
\* once removals have freed room for every visible unbound camera, is attached
\* by the next arrival event.
C16_DroppedArrivalAttachesLater ==
    \A sid \in dropped :
        (/\ InList(sid, dev_list) /\ ~BoundIn(devices, sid)
         /\ FreeSlots # {}
         /\ Cardinality(VisibleUnbound(devices, dev_list)) <= Cardinality(FreeSlots))
            => BoundIn(process_plug_event(devices, dev_list, TRUE), sid)

\* C17: when process_unplug_event returns, exactly the occupied slots whose
\* identity is absent from the scan have been set free, however many there
\* are, and every other slot is as it was.
C17_UnplugFreesExactlyTheAbsent ==
    LET after == process_unplug_event(devices, dev_list)
    IN  \A slot \in Slots :
            after[slot] = IF slot \in GoneSlots THEN NULL ELSE devices[slot]

\* C17 witness: several bound cameras have disappeared at once.
C17_Witness == Cardinality(GoneSlots) >= 2

\* C18: process_unplug_event frees the private data of every device it
\* removes: no private data block is left allocated without its device.
C18_UnplugFreesPrivateData == leaked = 0

\* C19: with enough free slots and every camera openable, every visible
\* identity is bound when process_plug_event returns.
C19_PlugBindsAllVisible ==
    Cardinality(VisibleUnbound(devices, dev_list)) <= Cardinality(FreeSlots)
        => LET after == process_plug_event(devices, dev_list, TRUE)
           IN  \A sid \in Sids : InList(sid, dev_list) => BoundIn(after, sid)

\* C20: the capability probe runs, and the device is marked connected, only
\* with the hardware handle open.
C20_ConnectedHasOpenHandle ==
    /\ \A t \in Threads : pc[t] \in {"probe_lock", "probe"} => dsi = "open"
    /\ is_connected => dsi = "open"

\* C21: once a connect has succeeded the temperature timer is scheduled exactly when
\* the probe found a sensor (CCD_TEMPERATURE not hidden); without a sensor the property
\* is hidden and no temperature timer exists for as long as the connection lasts.
C21_TimerIffSensor ==
    /\ (pub.prop = "CONNECTION" /\ pub.state = "OK" /\ is_connected)
           => (ttimer = "pending" <=> ~temperature_hidden)
    /\ (is_connected /\ temperature_hidden) => ttimer = "none"

C21_Witness ==
    /\ pub.prop = "CONNECTION" /\ pub.state = "OK"
    /\ is_connected /\ temperature_hidden /\ ttimer = "none"

IsPrefix(a, b) == Len(a) <= Len(b) /\ a = SubSeq(b, 1, Len(a))

\* C22: indigo_write answers true only after the handle was given all bytes of the
\* buffer, in order, none skipped or repeated, every partial write followed by one for
\* the unwritten rest; it answers false at the first write that reports failure.
C22_WriteAllOrFail ==
    io.op = "write" =>
        LET r == io.res
            used == Min(r.calls, Len(io.script))
        IN  /\ IsPrefix(r.sink, io.data)
            /\ \A i \in 1 .. (used - 1) : io.script[i] >= 0
            /\ r.ok => /\ r.sink = io.data
                       /\ \A i \in 1 .. used : io.script[i] >= 0
            /\ ~r.ok => /\ r.calls <= Len(io.script)
                        /\ io.script[r.calls] < 0

C22_Witness ==
    /\ io.op = "write"
    /\ io.res.ok
    /\ io.res.calls >= 2
    /\ Len(io.data) >= 2
    /\ io.script # <<>> /\ io.script[1] = 1

\* The input up to but excluding its first LF (all of it if it has none), CRs dropped.
HasLF(stream) == \E i \in 1 .. Len(stream) : stream[i] = "LF"
FirstLF(stream) == CHOOSE i \in 1 .. Len(stream) :
                       stream[i] = "LF" /\ \A j \in 1 .. (i - 1) : stream[j] # "LF"
NotCR(c) == c # "CR"
LineOf(stream) ==
    SelectSeq(IF HasLF(stream) THEN SubSeq(stream, 1, FirstLF(stream) - 1) ELSE stream, NotCR)

\* C23 (as stated): indigo_read_line stores the bytes up to but excluding the first LF,
\* every CR dropped, NUL-terminates them and returns their number; it returns -1 when
\* the stream ends or a read fails before an LF is seen.
C23_LineUpToLF ==
    io.op = "read_line" =>
        IF HasLF(io.stream)
        THEN /\ io.res.buffer = LineOf(io.stream)
             /\ io.res.ret = Len(LineOf(io.stream))
             /\ io.res.nul = io.res.ret
        ELSE io.res.ret = -1

\* C23 (amended): indigo_read_line stores the bytes up to but excluding the first LF,
\* or only the first `length` of them when there are at least that many, every CR
\* dropped, writes the NUL right after the last byte stored and returns the number
\* stored; it returns -1 when the stream ends or a read fails before an LF is seen
\* and before `length` bytes were stored.
C23_LineUpToLFOrLength ==
    io.op = "read_line" =>
        LET line == LineOf(io.stream)
        IN  IF Len(line) >= io.length
            THEN /\ io.res.buffer = SubSeq(line, 1, io.length)
                 /\ io.res.ret = io.length
                 /\ io.res.nul = io.length
            ELSE IF HasLF(io.stream)
            THEN /\ io.res.buffer = line
                 /\ io.res.ret = Len(line)
                 /\ io.res.nul = Len(line)
            ELSE io.res.ret = -1

C23_Witness ==
    /\ io.op = "read_line"
    /\ HasLF(io.stream)
    /\ Len(LineOf(io.stream)) > io.length
    /\ io.length > 0
    /\ io.res.ret = io.length

\* C24: indigo_read returns `length` exactly when the whole buffer was filled, however
\* many partial reads that took, and returns 0 or -1, never a partial count, when a
\* read fails or the stream ends first, also after some bytes were read.
C24_ReadAllOrNothing ==
    io.op = "read" =>
        LET r == io.res
        IN  /\ r.ret \in {io.length, 0, -1}
            /\ IsPrefix(r.buffer, io.stream)
            /\ Len(r.buffer) <= io.length
            /\ (io.length > 0 /\ Len(r.buffer) = io.length) <=> (io.length > 0 /\ r.ret = io.length)
            /\ Len(r.buffer) < io.length => r.ret \in {0, -1}

C24_Witness ==
    /\ io.op = "read"
    /\ io.length >= 2
    /\ io.script # <<>> /\ io.script[1] = 1
    /\ io.res.ret = io.length
    /\ Len(io.res.buffer) = io.length

\* C25: a device has at most one exposure timer chain live, and only the timer of
\* the exposure in progress reads the image and completes it, also when a start, an
\* abort and a new start follow one another before the first timer has fired.
C25_OneExposureChain ==
    /\ Cardinality(LiveExposureTimers) <= 1
    /\ \A e \in Exposures : etimer[e] = "reading" => e = expSeq

\* C26: detach and free of a device never start before the asynchronous attach that
\* process_plug_event launched for it has completed.
C26_DetachAfterAttach ==
    [][\A slot \in Slots :
          (devices[slot] # NULL /\ devices'[slot] = NULL) => slot \notin attaching]_vars

\* C27: every camera handle that was opened is closed exactly once: dsi_close_camera
\* is never called on a handle that was never opened or is closed already, and no
\* open handle is left when the device is freed.
C27_ClosedExactlyOnce ==
    [][/\ ((\E t \in Threads : pc[t] = "close" /\ pc'[t] # "close")
            \/ (pc[HP] = "free" /\ pc'[HP] = "idle"))
           => dsi = "open"
       /\ (freed' /\ ~freed) => dsi' # "open"]_vars

\* C28: ccd_change_property is inside a hardware call that needs an open handle
\* (start exposure, abort exposure, set gain, set offset) only while the device is
\* connected; on a disconnected device such a request reaches no hardware call.
C28_HardwareOnlyConnected ==
    \A t \in Threads :
        pc[t] \in {"start", "abort", "gain"} => is_connected

\* C29: ccd_temperature_callback reschedules itself only as its last step, so its
\* executions never overlap and the device has at most one temperature timer through
\* any sequence of connects and disconnects: a timer exists only while the device is
\* connected, none is left when a connect schedules one, and once a disconnect has
\* returned the callback neither polls nor reschedules.
C29_OneTemperatureTimer ==
    /\ ttimer # "none" => (is_connected /\ ~freed)
    /\ (\E t \in Threads : pc[t] \in {"open", "probe_lock", "probe"}) => ttimer = "none"
    /\ (pub.by = "ccd_temperature_callback") => ttimer = "pending"

C29_Witness ==
    /\ ttimer = "pending"
    /\ pub.by = "ccd_temperature_callback"
    /\ is_connected

\* C30: a connect whose camera open fails publishes ALERT and returns FAILED with the
\* device not connected, no temperature timer and DISCONNECTED on, CONNECTED off; and
\* exactly one item of CONNECTION is on after every connection change.
C30_FailedConnect ==
    /\ connItem # discItem
    /\ (pub.prop = "CONNECTION" /\ pub.state = "ALERT")
           => /\ ~is_connected
              /\ ttimer = "none"
              /\ discItem /\ ~connItem
              /\ connState = "ALERT"
              /\ \A t \in Clients : pc[t] = "idle"

C30_Witness ==
    /\ pub.prop = "CONNECTION" /\ pub.state = "ALERT"
    /\ discItem /\ ~connItem /\ ~is_connected

\* C31: no temperature read (dsi_get_temperature in ccd_temperature_callback) starts
\* or is in progress between the moment can_check_temperature is cleared for an
\* exposure and the return of exposure_timer_callback for that exposure.
C31_NoTemperatureReadNearReadout ==
    (\E e \in Exposures : etimer[e] \in {"exposure", "reading"}) => ttimer # "polling"

\* C32: for an accepted exposure of duration T that is not aborted, the image-read
\* callback fires T time units after the start, directly for T of at most 4 and
\* through clear_reg_timer_callback at T-4 and a 4-unit timer for T above 4; it never
\* fires before T.
C32_ReadFiresAtT ==
    (pub.prop = "CCD_EXPOSURE" /\ pub.by = "exposure_timer_callback")
        => now = began[expSeq] + target

\* C33: indigo_read_line never writes outside buffer[0 .. length-1], the terminating
\* NUL included, for every input stream, in particular for one that delivers `length`
\* or more non-CR bytes before any LF (stated for buffers of at least one byte).
C33_ReadLineInBounds ==
    (io.op = "read_line" /\ io.length > 0) =>
        /\ Len(io.res.buffer) <= io.length
        /\ io.res.nul <= io.length - 1

\* The form <baud>-<bits><parity><stop>: <baud> a non-empty rate of the baud table,
\* <bits> in 5..8, <parity> one of N, E, O in either case, <stop> 1 or 2.
WellFormedConfig(baudconfig) ==
    \E row \in 1 .. Len(br) : \E bits \in {"5", "6", "7", "8"} :
    \E parity \in {"N", "E", "O", "n", "e", "o"} : \E stop \in {"1", "2"} :
        /\ br[row].str # <<>>
        /\ baudconfig = br[row].str \o <<"-", bits, parity, stop>>

\* C34: indigo_open_serial_with_config opens the device only if the configuration
\* string has the form <baud>-<bits><parity><stop> with a non-empty rate of the baud
\* table; for every other string it returns -1 with errno EINVAL and opens nothing.
C34_SerialConfigValidated ==
    io.op = "open_serial" =>
        /\ io.res.opened => WellFormedConfig(io.baudconfig)
        /\ ~WellFormedConfig(io.baudconfig)
               => (io.res.ret = -1 /\ io.res.errno = "EINVAL" /\ ~io.res.opened)

\* C35: whenever indigo_open_tcp or indigo_open_udp returns -1, no socket created by
\* that call is left open, whichever step failed (name resolution, socket creation,
\* connect, setting either timeout).
C35_NoSocketLeftOnFailure ==
    (io.op \in {"open_tcp", "open_udp"} /\ io.res.ret = -1)
        => (io.res.created => io.res.closed)

\* C36: after any sequence of INIT, SHUTDOWN and INFO calls of indigo_ccd_dsi,
\* whenever an INIT returns OK the hot-plug callback is registered exactly once: a
\* repeated INIT never registers it a second time, and INIT never returns OK without
\* a registration in place, also when it repeats an INIT whose registration failed.
C36_InitOkMeansRegisteredOnce ==
    entry.action = "INDIGO_DRIVER_INIT" =>
        /\ entry.registers => ~entry.before
        /\ entry.result = "INDIGO_OK" => registered

====
